---- MODULE Spec2Model ----
(***************************************************************************)
(* nagare editor: Property / Editor (nagare/editor.py) and the validator   *)
(* chains (nagare/validator.py), eager and lazy.                           *)
(*                                                                         *)
(* Two specifications share the pure definitions of the validators:        *)
(*   Spec       the Editor over its Properties: set and commit calls;      *)
(*   ChainSpec  one validator chain, recorded lazily, replayed by          *)
(*              DualValidator.__call__, then evaluated eagerly.            *)
(***************************************************************************)
EXTENDS Integers, Sequences, FiniteSets, TLC

(***************************************************************************)
(* Python values.  Every value is a record of the same shape:              *)
(*   t  the type ("str", "int", "NoneType", "FieldStorage", "method", or   *)
(*      the class of a validator object),                                  *)
(*   w  for a validator object the type of the value it wraps, for a bound *)
(*      method its name, "" otherwise,                                     *)
(*   s  the characters of a str (a sequence of one-character strings),     *)
(*   n  the number of an int.                                              *)
(***************************************************************************)
PyStr(s) == [t |-> "str", w |-> "", s |-> s, n |-> 0]

PyInt(n) == [t |-> "int", w |-> "", s |-> <<>>, n |-> n]

None == [t |-> "NoneType", w |-> "", s |-> <<>>, n |-> 0]

\* a cgi.FieldStorage upload: the only input with a `file` attribute
FieldStorage == [t |-> "FieldStorage", w |-> "", s |-> <<>>, n |-> 0]

\* the bound method  StringValidator(s).to_int,  not yet called
BoundToInt(s) == [t |-> "method", w |-> "to_int", s |-> s, n |-> 0]

\* a validator object of class cls wrapping the value val (a str or an int)
VObj(cls, val) == [t |-> cls, w |-> val.t, s |-> val.s, n |-> val.n]

\* self.value of a validator object
Wrapped(self) == [t |-> self.w, w |-> "", s |-> self.s, n |-> self.n]

ValidatorClasses == {"Validator", "IntValidator", "StringValidator"}

(***************************************************************************)
(* Exceptions and the outcome of a call: a returned value or a raised      *)
(* exception.  A message is the template and the number that "%" puts in   *)
(* it (0 when the template takes none).                                    *)
(***************************************************************************)
Msg(text, arg) == [isNone |-> FALSE, text |-> text, arg |-> arg]

NoMsg == [isNone |-> TRUE, text |-> "", arg |-> 0]

Exc(kind, msg) == [kind |-> kind, msg |-> msg]

NoExc == Exc("", NoMsg)

ValueError(text, arg) == Exc("ValueError", Msg(text, arg))

Return(val) == [k |-> "return", val |-> val, exc |-> NoExc]

Raise(exc) == [k |-> "raise", val |-> None, exc |-> exc]

IsValueError(out) == out.k = "raise" /\ out.exc.kind = "ValueError"

(***************************************************************************)
(* Characters and the str methods the validators call.                     *)
(***************************************************************************)
Base == 10

Digits == {"0", "1", "2", "5"}

DigitVal(c) == CASE c = "0" -> 0 [] c = "1" -> 1 [] c = "2" -> 2 [] c = "5" -> 5 [] OTHER -> 0

Whitespace == {" "}

Lower == {"a"}

Upper == {"A"}

RECURSIVE lstrip(_)
lstrip(s) == IF s # <<>> /\ Head(s) \in Whitespace THEN lstrip(Tail(s)) ELSE s

RECURSIVE rstrip(_)
rstrip(s) ==
    IF s # <<>> /\ s[Len(s)] \in Whitespace THEN rstrip(SubSeq(s, 1, Len(s) - 1)) ELSE s

strip(s) == rstrip(lstrip(s))

AllIn(s, class) == \A i \in 1..Len(s) : s[i] \in class

isdigit(s) == s # <<>> /\ AllIn(s, Digits)

isalpha(s) == s # <<>> /\ AllIn(s, Lower \cup Upper)

isalnum(s) == s # <<>> /\ AllIn(s, Digits \cup Lower \cup Upper)

isspace(s) == s # <<>> /\ AllIn(s, Whitespace)

islower(s) == (\E i \in 1..Len(s) : s[i] \in Lower) /\ (\A i \in 1..Len(s) : s[i] \notin Upper)

isupper(s) == (\E i \in 1..Len(s) : s[i] \in Upper) /\ (\A i \in 1..Len(s) : s[i] \notin Lower)

RECURSIVE DigitsValue(_)
DigitsValue(d) ==
    IF d = <<>> THEN 0
    ELSE DigitsValue(SubSeq(d, 1, Len(d) - 1)) * Base + DigitVal(d[Len(d)])

\* the digits d of a literal after its sign: its value, or the ValueError of
\* int() with the interpreter's own message
Literal(sign, d) ==
    IF isdigit(d)
    THEN Return(PyInt(IF sign = "-" THEN 0 - DigitsValue(d) ELSE DigitsValue(d)))
    ELSE Raise(ValueError("invalid literal for int() with base %d", Base))

\* a str with its surrounding whitespace removed, read as a number
ParseInt(b) ==
    IF b # <<>> /\ Head(b) \in {"-", "+"} THEN Literal(Head(b), Tail(b)) ELSE Literal("+", b)

\* the builtin int(x, base) (explicitBase) and int(x): surrounding whitespace
\* and one sign are accepted; a str that is no number raises ValueError, a
\* non-str with an explicit base (or None, or an upload) TypeError
int(x, explicitBase) ==
    IF x.t = "str"
    THEN ParseInt(strip(x.s))
    ELSE IF x.t = "int" /\ ~explicitBase
    THEN Return(x)
    ELSE Raise(Exc("TypeError", Msg("int() argument must be a string or a number", 0)))

(***************************************************************************)
(* validator.py: the eager validators.                                     *)
(***************************************************************************)
\* the constructor's keyword options (chars is left None: whitespace)
NoOpts == [strip |-> FALSE, rstrip |-> FALSE, lstrip |-> FALSE]

OptSets == {NoOpts, [NoOpts EXCEPT !.strip = TRUE]}

\* Validator.__init__: the type check, then the strips, then self.value
ValidatorInit(cls, v, opts) ==
    IF v.t # "str"
    THEN Raise(ValueError("Input must be a string", 0))
    ELSE LET v1 == IF opts.strip THEN strip(v.s) ELSE v.s
             v2 == IF opts.rstrip THEN rstrip(v1) ELSE v1
             v3 == IF opts.lstrip THEN lstrip(v2) ELSE v2
         IN  Return(VObj(cls, PyStr(v3)))

\* IntValidator.__init__ after super().__init__: int(self.value, base), its
\* ValueError and TypeError both becoming ValueError(msg)
IntConverted(cls, r) ==
    IF r.k = "raise" /\ r.exc.kind \in {"ValueError", "TypeError"}
    THEN Raise(ValueError("Must be an integer", 0))
    ELSE IF r.k = "raise" THEN r
    ELSE Return(VObj(cls, r.val))

\* IntValidator.__init__, given what Validator.__init__ did (sup)
IntValidatorAfter(cls, sup) ==
    IF sup.k = "raise" THEN sup ELSE IntConverted(cls, int(Wrapped(sup.val), TRUE))

\* IntValidator.__init__
IntValidatorInit(cls, v, opts) == IntValidatorAfter(cls, ValidatorInit(cls, v, opts))

\* cls(v, **opts) with a value: Validator.__new__ makes the eager instance
\* and __init__ of the class runs
Construct(cls, v, opts) ==
    IF cls = "IntValidator" THEN IntValidatorInit(cls, v, opts) ELSE ValidatorInit(cls, v, opts)

\* Validator.__call__ (and its aliases IntValidator.to_int,
\* StringValidator.to_string): return self.value
Call(self) == Return(Wrapped(self))

\* lesser_than with the comparison of lesser_or_equal_than
lesser_than_inclusive(self, max) ==
    IF self.n <= max THEN Return(self)
    ELSE Raise(ValueError("Must be lesser than %(max)d", max))

lesser_than(self, max) ==
    IF self.n < max THEN Return(self)
    ELSE Raise(ValueError("Must be lesser than %(max)d", max))

lesser_or_equal_than(self, max) ==
    IF self.n <= max THEN Return(self)
    ELSE Raise(ValueError("Must be lesser or equal than %(max)d", max))

greater_than(self, min) ==
    IF self.n > min THEN Return(self)
    ELSE Raise(ValueError("Must be greater than %(min)d", min))

greater_or_equal_than(self, min) ==
    IF self.n >= min THEN Return(self)
    ELSE Raise(ValueError("Must be greater or equal than %(min)d", min))

\* to_int turning the failure of int() into the validators' own message
to_int_wrapped(self) == IntConverted("StringValidator", int(Wrapped(self), TRUE))

\* StringValidator.to_int: int(self.value, base=base), un-caught
to_int(self) == int(Wrapped(self), TRUE)

not_empty(self) ==
    IF Len(self.s) # 0 THEN Return(self) ELSE Raise(ValueError("Can't be empty", 0))

shorter_than(self, max) ==
    IF Len(self.s) < max THEN Return(self)
    ELSE Raise(ValueError("Length must be shorter than %(max)d characters", max))

shorter_or_equal_than(self, max) ==
    IF Len(self.s) <= max THEN Return(self)
    ELSE Raise(ValueError("Length must be shorter or equal than %(max)d characters", max))

length_equal(self, v) ==
    IF Len(self.s) = v THEN Return(self)
    ELSE Raise(ValueError("Length must be %(len)d characters", v))

longer_than(self, min) ==
    IF Len(self.s) > min THEN Return(self)
    ELSE Raise(ValueError("Length must be longer than %(min)d characters", min))

longer_or_equal_than(self, min) ==
    IF Len(self.s) >= min THEN Return(self)
    ELSE Raise(ValueError("Length must be longer or equal than %(min)d characters", min))

\* isalnum, isalpha, isdigit, islower, isupper, isspace of StringValidator
CharClass(self, m) ==
    LET ok == CASE m = "isalnum" -> isalnum(self.s)
                [] m = "isalpha" -> isalpha(self.s)
                [] m = "isdigit" -> isdigit(self.s)
                [] m = "islower" -> islower(self.s)
                [] m = "isupper" -> isupper(self.s)
                [] OTHER -> isspace(self.s)
        text == CASE m = "isalnum" -> "Some characters are not alphanumeric"
                  [] m = "isalpha" -> "Some characters are not alphabetic"
                  [] m = "isdigit" -> "Some characters are not digits"
                  [] m = "islower" -> "Some characters are not lowercase"
                  [] m = "isupper" -> "Some characters are not uppercase"
                  [] OTHER -> "Some characters are not whitespace"
    IN  IF ok THEN Return(self) ELSE Raise(ValueError(text, 0))

IntChecks == {"lesser_than", "lesser_or_equal_than", "greater_than", "greater_or_equal_than"}

LengthChecks ==
    {"shorter_than", "shorter_or_equal_than", "length_equal", "longer_than",
     "longer_or_equal_than"}

CharChecks == {"isalnum", "isalpha", "isdigit", "islower", "isupper", "isspace"}

\* the conversions that return the plain value instead of self
Terminals(cls) ==
    CASE cls = "IntValidator" -> {"to_int"}
      [] cls = "StringValidator" -> {"to_string", "to_int"}
      [] OTHER -> {}

\* the public callables of the class body, which DualCallable.__new__ wraps
\* into the class's dual (StringValidator.match is left out: its regular
\* expression is opaque here)
PublicMethods(cls) ==
    CASE cls = "IntValidator" -> IntChecks \cup {"to_int"}
      [] cls = "StringValidator" -> {"not_empty"} \cup LengthChecks \cup CharChecks
                                      \cup {"to_string", "to_int"}
      [] OTHER -> {}

\* method m of the class of self, called with arg: what it returns or raises
Method(m, self, arg) ==
    IF self.t = "IntValidator"
    THEN CASE m = "lesser_than" -> lesser_than(self, arg)
           [] m = "lesser_or_equal_than" -> lesser_or_equal_than(self, arg)
           [] m = "greater_than" -> greater_than(self, arg)
           [] m = "greater_or_equal_than" -> greater_or_equal_than(self, arg)
           [] OTHER -> Call(self)
    ELSE IF m = "to_string" THEN Call(self)
    ELSE IF m = "to_int" THEN to_int(self)
    ELSE IF self.w # "str"
    THEN Raise(Exc("TypeError", Msg("self.value is not a str", 0)))
    ELSE CASE m = "not_empty" -> not_empty(self)
           [] m = "shorter_than" -> shorter_than(self, arg)
           [] m = "shorter_or_equal_than" -> shorter_or_equal_than(self, arg)
           [] m = "length_equal" -> length_equal(self, arg)
           [] m = "longer_than" -> longer_than(self, arg)
           [] m = "longer_or_equal_than" -> longer_or_equal_than(self, arg)
           [] OTHER -> CharClass(self, m)

\* self after the call of m that ended as r: StringValidator.to_int alone
\* assigns self.value, the int it then returns
SelfAfter(m, self, r) ==
    IF self.t = "StringValidator" /\ m = "to_int" /\ r.k = "return"
    THEN VObj(self.t, r.val)
    ELSE self

(***************************************************************************)
(* validator.py: the lazy validators.  A DualValidator is its list _calls  *)
(* of pairs (method, argument); the class is known from its _dual.         *)
(***************************************************************************)
\* _defer_call putting the call in front of those recorded
defer_call_front(calls, m, arg) == <<[m |-> m, arg |-> arg]>> \o calls

\* DualValidator._defer_call: append and return self
defer_call(calls, m, arg) == Append(calls, [m |-> m, arg |-> arg])

\* the loop of DualValidator.__call__ from the i-th recorded call on, then
\* `return validator()`: the results of the calls are dropped, a raised
\* exception leaves the loop and the call
RECURSIVE Replay(_, _, _)
RECURSIVE Replayed(_, _, _, _)
Replay(validator, calls, i) ==
    IF i > Len(calls)
    THEN Call(validator)
    ELSE Replayed(validator, calls, i, Method(calls[i].m, validator, calls[i].arg))

\* the i-th recorded call ended as r
Replayed(validator, calls, i, r) ==
    IF r.k = "raise" THEN r ELSE Replay(SelfAfter(calls[i].m, validator, r), calls, i + 1)

\* the replay on what self._dual(value) made, unless it raised
ReplayOn(c, calls) == IF c.k = "raise" THEN c ELSE Replay(c.val, calls, 1)

\* DualValidator.__call__(value): self._dual(value), with no option, then
\* the replay
DualCall(cls, calls, value) == ReplayOn(Construct(cls, value, NoOpts), calls)

(***************************************************************************)
(* State.  The Editor: target, props, ret, lastSet.  One validator chain:  *)
(* the rest.                                                               *)
(***************************************************************************)
VARIABLES
    target,     \* the target object's attributes, by name
    props,      \* the Editor's Properties, by name
    ret,        \* what the last call of set or commit returned or raised
    lastSet,    \* per Property, the most recent call of set and whether the
                \* Property had an error before it (history)
    cls,        \* the validator class of the chain
    opts,       \* the constructor options written in the chain
    written,    \* the chain as written: the methods and their arguments
    calls,      \* DualValidator._calls: the chain as recorded
    pc,         \* where the chain's evaluation stands
    value,      \* the value the chain is invoked with
    validator,  \* DualValidator.__call__'s local validator
    i,          \* index of the next recorded call to replay
    lazyOut,    \* outcome of the lazy invocation
    lazyLog,    \* the calls the replay has executed, with their outcome
    cur,        \* eager: the object the next method is called on
    j,          \* eager: index of the next method of the chain
    eagerOut,   \* outcome of the eager chain
    eagerLog    \* the calls the eager chain has executed, with their outcome

edVars == <<target, props, ret, lastSet>>

chainVars ==
    <<cls, opts, written, calls, pc, value, validator, i, lazyOut, lazyLog, cur, j, eagerOut,
      eagerLog>>

vars == <<edVars, chainVars>>

(***************************************************************************)
(* ChainSpec: a chain is written once; the lazy convention records it on a *)
(* DualValidator and replays it on a value, the eager convention runs the  *)
(* same chain on a validator constructed with that value.                  *)
(***************************************************************************)
MaxChain == 2

IntLimits == {10, 20}

LenLimits == {1, 2}

ChainInputs ==
    {PyStr(<<"1", "5">>), PyStr(<<"5">>), PyStr(<<"1", "0">>), PyStr(<<"2", "0">>),
     PyStr(<<" ", "1", "5">>), PyStr(<<"-", "5">>), PyStr(<<"a">>), PyStr(<<"1", "a">>),
     PyStr(<<"A", "a">>), PyStr(<<" ">>), PyStr(<<>>), None, PyInt(15)}

ArgsOf(m) ==
    IF m \in IntChecks THEN IntLimits ELSE IF m \in LengthChecks THEN LenLimits ELSE {0}

Pending == [k |-> "", val |-> None, exc |-> NoExc]

\* a line of a log: the call, the value of the validator it was made on, and
\* what it returned or raised
Entry(m, arg, self, out) ==
    [m |-> m, arg |-> arg, recv |-> Wrapped(self), ok |-> out.k = "return",
     val |-> out.val, exc |-> out.exc]

\* cls(**opts) with no value: Validator.__new__ returns cls._dual(), a
\* DualValidator with an empty _calls; the options are not passed on
ChainInit ==
    /\ cls \in ValidatorClasses
    /\ opts \in OptSets
    /\ written = <<>>
    /\ calls = <<>>
    /\ pc = "build"
    /\ value = None
    /\ validator = None
    /\ i = 0
    /\ lazyOut = Pending
    /\ lazyLog = <<>>
    /\ cur = None
    /\ j = 0
    /\ eagerOut = Pending
    /\ eagerLog = <<>>

\* .m(arg) on the DualValidator: the wrapper made by DualCallable.__new__
\* calls _defer_call.  Nothing is written after a terminal conversion.
DeferCall(m, arg) ==
    /\ UNCHANGED edVars
    /\ pc = "build"
    /\ Len(written) < MaxChain
    /\ \A k \in {Len(written)} \ {0} : written[k].m \notin Terminals(cls)
    /\ written' = Append(written, [m |-> m, arg |-> arg])
    /\ calls' = defer_call(calls, m, arg)
    /\ UNCHANGED <<cls, opts, pc, value, validator, i, lazyOut, lazyLog, cur, j, eagerOut,
                   eagerLog>>

\* DualValidator.__call__(v), first statement: validator = self._dual(value)
Invoke(v) ==
    /\ UNCHANGED edVars
    /\ pc = "build"
    /\ value' = v
    /\ LET c == Construct(cls, v, NoOpts)
       IN  IF c.k = "raise"
           THEN /\ lazyOut' = c
                /\ pc' = "eager"
                /\ UNCHANGED <<validator, i>>
           ELSE /\ validator' = c.val
                /\ i' = 1
                /\ pc' = "replay"
                /\ UNCHANGED lazyOut
    /\ UNCHANGED <<cls, opts, written, calls, lazyLog, cur, j, eagerOut, eagerLog>>

\* a replay that goes on to the next call after a call raised
AfterReplayedGoesOn(r) == "replay"

\* where the replay goes after a recorded call: on to the next one, or out
\* of __call__ with the exception
AfterReplayed(r) == IF r.k = "raise" THEN "eager" ELSE "replay"

\* one turn of the loop  for f, args, kw in self._calls: f(validator, ...)
ReplayStep ==
    /\ UNCHANGED edVars
    /\ pc = "replay"
    /\ i <= Len(calls)
    /\ LET c == calls[i]
           r == Method(c.m, validator, c.arg)
       IN  /\ lazyLog' = Append(lazyLog, Entry(c.m, c.arg, validator, r))
           /\ pc' = AfterReplayed(r)
           /\ lazyOut' = IF r.k = "raise" THEN r ELSE lazyOut
           /\ validator' = SelfAfter(c.m, validator, r)
           /\ i' = i + 1
    /\ UNCHANGED <<cls, opts, written, calls, value, cur, j, eagerOut, eagerLog>>

\* return validator()
ReplayReturn ==
    /\ UNCHANGED edVars
    /\ pc = "replay"
    /\ i > Len(calls)
    /\ lazyOut' = Call(validator)
    /\ pc' = "eager"
    /\ UNCHANGED <<cls, opts, written, calls, value, validator, i, lazyLog, cur, j, eagerOut, eagerLog>>

\* the eager chain  cls(value, **opts).m1(a1).m2(a2)...  : the constructor
EagerNew ==
    /\ UNCHANGED edVars
    /\ pc = "eager"
    /\ LET c == Construct(cls, value, opts)
       IN  IF c.k = "raise"
           THEN /\ eagerOut' = c
                /\ pc' = "done"
                /\ UNCHANGED <<cur, j>>
           ELSE /\ cur' = c.val
                /\ j' = 1
                /\ pc' = "chain"
                /\ UNCHANGED eagerOut
    /\ UNCHANGED <<cls, opts, written, calls, value, validator, i, lazyOut, lazyLog, eagerLog>>

\* the next method of the chain, called on what the previous one returned;
\* a raised exception ends the expression, a terminal conversion too
EagerStep ==
    /\ UNCHANGED edVars
    /\ pc = "chain"
    /\ j <= Len(written)
    /\ LET c == written[j]
           r == Method(c.m, cur, c.arg)
       IN  /\ eagerLog' = Append(eagerLog, Entry(c.m, c.arg, cur, r))
           /\ IF r.k = "raise" \/ c.m \in Terminals(cls)
              THEN /\ eagerOut' = r
                   /\ pc' = "done"
                   /\ UNCHANGED cur
              ELSE /\ cur' = r.val
                   /\ UNCHANGED <<eagerOut, pc>>
           /\ j' = j + 1
    /\ UNCHANGED <<cls, opts, written, calls, value, validator, i, lazyOut, lazyLog>>

\* the chain's last call was a check: the value is extracted with ()
EagerExtract ==
    /\ UNCHANGED edVars
    /\ pc = "chain"
    /\ j > Len(written)
    /\ eagerOut' = Call(cur)
    /\ pc' = "done"
    /\ UNCHANGED <<cls, opts, written, calls, value, validator, i, lazyOut, lazyLog, cur, j, eagerLog>>

ChainNext ==
    \/ \E m \in PublicMethods(cls) : \E arg \in ArgsOf(m) : DeferCall(m, arg)
    \/ \E v \in ChainInputs : Invoke(v)
    \/ ReplayStep
    \/ ReplayReturn
    \/ EagerNew
    \/ EagerStep
    \/ EagerExtract

(***************************************************************************)
(* editor.py: Property.                                                    *)
(***************************************************************************)
\* what a form hands to set: strings, None, an upload
EdInputs == {PyStr(<<"1", "5">>), PyStr(<<"5">>), PyStr(<<"a">>), None, FieldStorage}

PyBool(b) == [t |-> "bool", w |-> "", s |-> <<>>, n |-> IF b THEN 1 ELSE 0]

\* the validating functions a Property is given with validate(f):
\*   _validate         Property._validate, the default: the identity
\*   IntRange          IntValidator().greater_than(10).lesser_than(20), lazy
\*   IntEager          lambda v: IntValidator(v).greater_than(10)
\*                     (the validator itself is returned, a callable)
\*   StrToInt          lambda v: StringValidator(v).to_int()
\*   StrToIntUncalled  lambda v: StringValidator(v).to_int
\*                     (the bound method is returned, a callable)
\*   int               the builtin int
\*   NotEmpty          StringValidator().not_empty(), lazy
ValidatingFunctions ==
    {"_validate", "IntRange", "IntEager", "StrToInt", "StrToIntUncalled", "int", "NotEmpty"}

IntRangeCalls ==
    defer_call(defer_call(<<>>, "greater_than", 10), "lesser_than", 20)

NotEmptyCalls == defer_call(<<>>, "not_empty", 0)

\* c.m(arg) in an eager chain: the method is called on what the chain made
\* so far, unless that raised
Chained(c, m, arg) == IF c.k = "raise" THEN c ELSE Method(m, c.val, arg)

\* c.to_int, not called: the bound method
Uncalled(c) == IF c.k = "raise" THEN c ELSE Return(BoundToInt(c.val.s))

\* f(input): what the validating function returns or raises
Validating(f, input) ==
    CASE f = "_validate" -> Return(input)
      [] f = "IntRange" -> DualCall("IntValidator", IntRangeCalls, input)
      [] f = "IntEager" -> Chained(Construct("IntValidator", input, NoOpts), "greater_than", 10)
      [] f = "StrToInt" -> Chained(Construct("StringValidator", input, NoOpts), "to_int", 0)
      [] f = "StrToIntUncalled" -> Uncalled(Construct("StringValidator", input, NoOpts))
      [] f = "NotEmpty" -> DualCall("StringValidator", NotEmptyCalls, input)
      [] OTHER -> int(input, FALSE)

\* the validating functions, tabulated over the inputs the Editor is given
Validated == [f \in ValidatingFunctions |-> [x \in EdInputs |-> Validating(f, x)]]

\* callable(value): validator objects define __call__, bound methods are
callable(v) == v.t \in ValidatorClasses \cup {"method"}

\* value(): the call with no argument
CallNoArgs(v) ==
    IF v.t = "method" THEN to_int(VObj("StringValidator", PyStr(v.s))) ELSE Call(v)

\* hasattr(input, 'file')
HasFile(input) == input.t = "FieldStorage"

\* var.Var.__init__ and var.Var.set: the current value is self.input
VarInit(v) == [input |-> v]

VarSet(p, v) == [p EXCEPT !.input = v]

\* Property.__init__(v)
Property(v) ==
    [input |-> VarInit(v).input, value |-> v, error |-> NoMsg, validate |-> "_validate"]

\* Property.validate(f)
validate(p, f) == [p EXCEPT !.validate = f]

\* a bare except clause
CaughtAny(exc) == TRUE

\* the  except ValueError as data  clause: the exceptions it catches
Caught(exc) == exc.kind = "ValueError"

\* an except clause that drops the message
ExceptedSilently(p, exc) == [prop |-> p, out |-> Return(None)]

\* an exception raised inside the try block: self.error = data.args[0] when
\* the clause catches it, else it leaves set
Excepted(p, exc) ==
    IF Caught(exc)
    THEN [prop |-> [p EXCEPT !.error = exc.msg], out |-> Return(None)]
    ELSE [prop |-> p, out |-> Raise(exc)]

\* the end of the try block, c being the value to keep or what calling the
\* callable value did: self.value = self.value(); self.error = None
Kept(p, c) ==
    IF c.k = "return"
    THEN [prop |-> [p EXCEPT !.value = c.val, !.error = NoMsg], out |-> Return(None)]
    ELSE Excepted(p, c.exc)

\* the try block, r being what the validating function did:
\* self.value = self._validate(input), then the call of a callable value
Tried(p, r) ==
    IF r.k = "return"
    THEN Kept([p EXCEPT !.value = r.val], IF callable(r.val) THEN CallNoArgs(r.val) ELSE r)
    ELSE Excepted(p, r.exc)

\* if not hasattr(input, 'file'): super(Property, self).set(input)
Recorded(p, input) == IF ~HasFile(input) THEN VarSet(p, input) ELSE p

\* Property.set(input): the Property after the call, and None returned or
\* the exception that leaves the call
set(p, input) == Tried(Recorded(p, input), Validated[p.validate][input])

(***************************************************************************)
(* editor.py: Editor.                                                      *)
(***************************************************************************)
Names == {"age", "name"}

\* the target before the Editor is made
Target0 == [n \in Names |-> IF n = "age" THEN PyInt(30) ELSE PyStr(<<"A", "a">>)]

properties_to_create == <<"age", "name">>

read_value(tgt, name) == tgt[name]

write_value(tgt, name, v) == [tgt EXCEPT ![name] = v]

SeqSet(names) == {names[k] : k \in 1..Len(names)}

\* Editor.is_validated(names)
is_validated(ps, names) == \A n \in names : ps[n].error.isNone

\* for name in properties_to_commit: self.write_value(target, name, value)
RECURSIVE WriteAll(_, _, _)
WriteAll(tgt, ps, names) ==
    IF names = <<>> THEN tgt
    ELSE WriteAll(write_value(tgt, Head(names), ps[Head(names)].value), ps, Tail(names))

\* a commit that never looks at its first argument
CommitNamesDefault(ptc) == properties_to_create

\* properties_to_commit, None standing for the names given at construction
CommitNames(ptc) == IF ptc.given THEN ptc.names ELSE properties_to_create

\* a commit that writes before it knows whether the Properties are valid
commit_unchecked(tgt, ps, ptc, ptv) ==
    [target |-> WriteAll(tgt, ps, CommitNames(ptc)),
     ret |-> Return(PyBool(is_validated(ps, SeqSet(CommitNames(ptc)) \cup ptv)))]

\* Editor.commit(properties_to_commit, properties_to_validate): the target
\* after the call and the boolean returned
commit(tgt, ps, ptc, ptv) ==
    LET names == CommitNames(ptc)
        validated == is_validated(ps, SeqSet(names) \cup ptv)
    IN  [target |-> IF validated THEN WriteAll(tgt, ps, names) ELSE tgt,
         ret |-> Return(PyBool(validated))]

NoArg == [given |-> FALSE, names |-> <<>>]

Given(names) == [given |-> TRUE, names |-> names]

CommitArgs == {NoArg, Given(<<"age">>), Given(<<"name">>)}

\* properties_to_validate
AlsoValidate == {{}, {"age"}, {"name"}}

\* the validating function each Property can be given: any for age, the
\* lazy not_empty chain for name
Attachable(n) == IF n = "age" THEN ValidatingFunctions \ {"NotEmpty"} ELSE {"NotEmpty"}

NeverSet == [called |-> FALSE, input |-> None, raised |-> FALSE, hadError |-> FALSE]

\* Editor.__init__(target, ("age", "name")), then validate(f) on each
\* Property
EdInit ==
    /\ target = Target0
    /\ \E fs \in [Names -> ValidatingFunctions] :
          /\ \A n \in Names : fs[n] \in Attachable(n)
          /\ props = [n \in Names |-> validate(Property(read_value(Target0, n)), fs[n])]
    /\ ret = Return(None)
    /\ lastSet = [n \in Names |-> NeverSet]

\* editor.<name>.set(input)
Set(name, input) ==
    /\ props' = [props EXCEPT ![name] = set(props[name], input).prop]
    /\ ret' = set(props[name], input).out
    /\ lastSet' = [lastSet EXCEPT
                     ![name] = [called |-> TRUE, input |-> input,
                                raised |-> set(props[name], input).out.k = "raise",
                                hadError |-> ~props[name].error.isNone]]
    /\ UNCHANGED target
    /\ UNCHANGED chainVars

\* editor.commit(ptc, ptv)
Commit(ptc, ptv) ==
    /\ LET r == commit(target, props, ptc, ptv)
       IN  /\ target' = r.target
           /\ ret' = r.ret
    /\ UNCHANGED <<props, lastSet>>
    /\ UNCHANGED chainVars

EdNext ==
    \/ \E name \in Names : \E input \in EdInputs : Set(name, input)
    \/ \E ptc \in CommitArgs : \E ptv \in AlsoValidate : Commit(ptc, ptv)

(***************************************************************************)
(* The specifications.                                                     *)
(***************************************************************************)
ChainIdle == ChainInit /\ cls = "Validator" /\ opts = NoOpts

EdIdle ==
    /\ target = Target0
    /\ props = [n \in Names |-> Property(read_value(Target0, n))]
    /\ ret = Return(None)
    /\ lastSet = [n \in Names |-> NeverSet]

Init == EdInit /\ ChainIdle

Next == EdNext

Spec == Init /\ [][Next]_vars

ChainSpecInit == ChainInit /\ EdIdle

ChainSpec == ChainSpecInit /\ [][ChainNext]_vars

(***************************************************************************)
(* Properties of validator chains, checked under ChainSpec.                *)
(***************************************************************************)
LazyOver == pc \in {"eager", "chain", "done"}

\* the validator the eager chain starts from, as the constructor makes it
\* with the options written, and the one self._dual(value) makes in the replay
Seed == Construct(cls, value, opts)

LazySeed == Construct(cls, value, NoOpts)

\* C4: a chain recorded with no value and invoked later with v ends as the
\* same chain written on a validator constructed with v: the same extracted
\* value, or a failure with the same message.
C4_EagerLazyEquivalent == (pc = "done" /\ opts = NoOpts) => lazyOut = eagerOut

\* C4 happens: an IntValidator chain of two checks whose second check fails,
\* run both ways.
C4_Witness ==
    /\ pc = "done"
    /\ opts = NoOpts
    /\ cls = "IntValidator"
    /\ Len(written) = MaxChain
    /\ Len(eagerLog) = MaxChain
    /\ Len(lazyLog) = MaxChain
    /\ IsValueError(eagerOut)

\* a log holds the chain's calls in the order written, nothing after a
\* call that failed, and the failure is the outcome of the whole
InOrderUntilFailure(log, out, seed) ==
    /\ Len(log) <= Len(written)
    /\ \A k \in 1..Len(log) :
          /\ log[k].m = written[k].m
          /\ log[k].arg = written[k].arg
          /\ ~log[k].ok =>
                /\ k = Len(log)
                /\ out = Raise(log[k].exc)
                /\ Method(written[k].m, seed.val, written[k].arg).k = "raise"
                /\ \A h \in 1..(k - 1) : Method(written[h].m, seed.val, written[h].arg).k = "return"

\* C5: the checks of a chain run in the order written (eager) or recorded
\* (lazy); when a check fails the chain raises that one failure, the first
\* failing check's, and no later check runs; with no failure every check ran.
C5_OrderAndEarlyExit ==
    /\ InOrderUntilFailure(lazyLog, lazyOut, LazySeed)
    /\ InOrderUntilFailure(eagerLog, eagerOut, Seed)
    /\ (LazyOver /\ lazyOut.k = "return") => Len(lazyLog) = Len(written)
    /\ (pc = "done" /\ eagerOut.k = "return") => Len(eagerLog) = Len(written)

\* C5 happens: the first of two checks failed, in the replay and in the eager
\* chain, and the second check was not run.
C5_Witness ==
    /\ pc = "done"
    /\ Len(written) = MaxChain
    /\ Len(lazyLog) = 1
    /\ Len(eagerLog) = 1
    /\ ~lazyLog[1].ok
    /\ ~eagerLog[1].ok
    /\ IsValueError(lazyOut)

\* what a bound check of IntValidator demands of the value n
Bound(m, n, limit) ==
    CASE m = "lesser_than" -> n < limit
      [] m = "lesser_or_equal_than" -> n <= limit
      [] m = "greater_than" -> n > limit
      [] OTHER -> n >= limit

BoundMessage(m) ==
    CASE m = "lesser_than" -> "Must be lesser than %(max)d"
      [] m = "lesser_or_equal_than" -> "Must be lesser or equal than %(max)d"
      [] m = "greater_than" -> "Must be greater than %(min)d"
      [] OTHER -> "Must be greater or equal than %(min)d"

BoundChecked(e) ==
    e.m \in IntChecks =>
        /\ e.recv.t = "int"
        /\ e.ok <=> Bound(e.m, e.recv.n, e.arg)
        /\ e.ok => e.val = VObj("IntValidator", e.recv)
        /\ ~e.ok => e.exc = ValueError(BoundMessage(e.m), e.arg)

\* C6: on an IntValidator holding n, lesser_than(max) succeeds iff n < max,
\* lesser_or_equal_than(max) iff n <= max, greater_than(min) iff n > min,
\* greater_or_equal_than(min) iff n >= min; a check that succeeds returns the
\* validator with n unchanged, so that successful checks followed by the
\* extraction yield n; one that does not fails with the check's ValueError.
C6_IntBounds ==
    cls = "IntValidator" =>
        /\ \A k \in 1..Len(eagerLog) : BoundChecked(eagerLog[k])
        /\ \A k \in 1..Len(lazyLog) : BoundChecked(lazyLog[k])
        /\ (pc = "done" /\ eagerOut.k = "return") => eagerOut.val = Wrapped(Seed.val)
        /\ (LazyOver /\ lazyOut.k = "return") => lazyOut.val = Wrapped(LazySeed.val)

\* C6 happens: IntValidator("15").greater_than(10).lesser_than(20) and the
\* extraction give 15.
C6_Witness ==
    /\ pc = "done"
    /\ cls = "IntValidator"
    /\ value = PyStr(<<"1", "5">>)
    /\ written = <<[m |-> "greater_than", arg |-> 10], [m |-> "lesser_than", arg |-> 20]>>
    /\ eagerOut = Return(PyInt(15))
    /\ lazyOut = Return(PyInt(15))

(***************************************************************************)
(* Properties of Property and Editor, checked under Spec.                  *)
(***************************************************************************)
\* what set makes of the validating function's outcome r: a callable result
\* is called once more
Final(r) == IF r.k = "return" /\ callable(r.val) THEN CallNoArgs(r.val) ELSE r

\* how the call f(x) of Property n's validating function ends
Outcome(n, x) == Final(Validated[props[n].validate][x])

\* the names a commit is asked to write: those given, or by default the
\* names the Editor was made with
Committed(ptc) == IF ptc.given THEN SeqSet(ptc.names) ELSE {"age", "name"}

\* the step is the call set(x) on Property n (the history is looked at
\* first: it tells most other steps apart at once)
SetCall(n, x) == lastSet'[n].called /\ lastSet'[n].input = x /\ Set(n, x)

PyTrue == Return(PyBool(TRUE))

PyFalse == Return(PyBool(FALSE))

\* C1: a commit in which a Property named in names_to_commit or in
\* names_to_also_validate has an error returns false and changes no
\* attribute of the target.
C1_CommitAllOrNothing ==
    [][\A ptc \in CommitArgs : \A ptv \in AlsoValidate :
          (~is_validated(props, Committed(ptc) \cup ptv) /\ Commit(ptc, ptv))
              => (ret' = PyFalse /\ target' = target)]_vars

\* C1 happens: commit returned false while one Property had an error and
\* another, valid, held a value the target does not have.
C1_Witness ==
    /\ ret = PyFalse
    /\ ~props["age"].error.isNone
    /\ props["name"].error.isNone
    /\ props["name"].value # target["name"]
    /\ target = Target0

\* C2: a commit in which every Property named in names_to_commit or in
\* names_to_also_validate is valid returns true; each attribute named in
\* names_to_commit (by default the names given at construction) then equals
\* its Property's value, and every other attribute is left as it was.
C2_CommitWrites ==
    [][\A ptc \in CommitArgs : \A ptv \in AlsoValidate :
          (is_validated(props, Committed(ptc) \cup ptv) /\ Commit(ptc, ptv))
              => /\ ret' = PyTrue
                 /\ \A n \in Committed(ptc) : target'[n] = props[n].value
                 /\ \A n \in Names \ Committed(ptc) : target'[n] = target[n]]_vars

\* C2 happens: commit returned true and wrote age, while name, valid too and
\* holding another value than the target's, was not written.
C2_Witness ==
    /\ ret = PyTrue
    /\ target["age"] = PyInt(15)
    /\ props["age"].value = PyInt(15)
    /\ props["name"].error.isNone
    /\ props["name"].value # target["name"]
    /\ target["name"] = Target0["name"]

\* C3: after a call of set that returns, error None means value is the
\* validating function's result for the input (a callable result called once
\* more), and error not None means value is what it was before the call.
C3_SetInvariant ==
    [][\A n \in Names : \A x \in EdInputs :
          (SetCall(n, x) /\ ret'.k = "return")
              => /\ props'[n].error.isNone =>
                     (Outcome(n, x).k = "return" /\ props'[n].value = Outcome(n, x).val)
                 /\ ~props'[n].error.isNone => props'[n].value = props[n].value]_vars

\* C7: after every call of set, whatever the input, the Property's current
\* input is the argument of the call.
C7_InputAlwaysRecorded ==
    [][\A n \in Names : \A x \in EdInputs : SetCall(n, x) => props'[n].input = x]_vars

\* C8: set catches the ValueError of a validation failure and stores its
\* message in error, the call returning; any other failure leaves set and
\* error is not touched.
C8_CatchesOnlyValueError ==
    [][\A n \in Names : \A x \in EdInputs :
          SetCall(n, x)
              => /\ IsValueError(Outcome(n, x)) =>
                     (ret' = Return(None) /\ props'[n].error = Outcome(n, x).exc.msg)
                 /\ (Outcome(n, x).k = "raise" /\ ~IsValueError(Outcome(n, x))) =>
                     (ret' = Raise(Outcome(n, x).exc) /\ props'[n].error = props[n].error)]_vars

\* C8 happens: the last call of set was left by a TypeError, nothing stored,
\* and the other Property holds the message of a validation failure its set
\* caught.
C8_Witness ==
    /\ ret.k = "raise"
    /\ ret.exc.kind = "TypeError"
    /\ lastSet["age"].raised
    /\ props["age"].error.isNone
    /\ lastSet["name"].called
    /\ ~lastSet["name"].raised
    /\ ~props["name"].error.isNone

\* the message of the interpreter's int() on a str that is no number
NativeMessage == Msg("invalid literal for int() with base %d", Base)

\* StringValidator(x).to_int() on a str that is no number
NotNumeric(n, x) ==
    /\ props[n].validate = "StrToInt"
    /\ x.t = "str"
    /\ Validating("StrToInt", x).k = "raise"

FreshlyCommitted(n) ==
    IF lastSet[n].called
    THEN /\ Outcome(n, lastSet[n].input).k = "return"
         /\ target'[n] = Outcome(n, lastSet[n].input).val
    ELSE target'[n] = Target0[n]

====
